---- MODULE Spec2Model ----
(***************************************************************************)
(* Model of src/__main__.py: create_zip_with_multiple_files, the           *)
(* deterministic archive builder, on a POSIX host (os.name = "posix",      *)
(* os.sep = "/").                                                          *)
(*                                                                         *)
(* A Python str is a sequence of one-character strings; every os.path      *)
(* function the builder calls is computed as posixpath computes it.        *)
(***************************************************************************)
EXTENDS Integers, Sequences, FiniteSets, TLC

VARIABLES
    files,              \* the host's regular files: absolute path -> [data, mtime, mode]
    listing,            \* directory -> the order in which the host enumerates its entries
    paths,              \* argument `paths` of the call
    preserve_structure, \* argument `preserve_structure`
    deterministic,      \* argument `deterministic`
    pc,                 \* position of the call: idle, resolve, sort, write, done, aborted
    sorted_paths,       \* local `sorted_paths`
    idx,                \* position of the first-pass loop in sorted_paths
    all_files_to_add,   \* local `all_files_to_add`: <<file_path, arcname>> pairs
    widx,               \* position of the second-pass loop in all_files_to_add
    dest,               \* the file at zip_filename
    stdout,             \* what the call printed
    ret,                \* what the caller of create_lambda_zip received
    prev,               \* outcome of the build before this one, kept by the caller
    changes             \* what changed on the host or in the call since the previous build

vars == <<files, listing, paths, preserve_structure, deterministic, pc,
          sorted_paths, idx, all_files_to_add, widx, dest, stdout, ret,
          prev, changes>>

(***************************************************************************)
(* Python str: code points, comparison, lower().                           *)
(***************************************************************************)

\* The printable ASCII characters in code-point order, from 32 (space); the four
\* quoting characters, which no path of the model holds, are named.
Ascii ==
    << " ", "!", "<dquote>", "#", "$", "%", "&", "<quote>", "(", ")", "*", "+", ",", "-", ".", "/",
       "0", "1", "2", "3", "4", "5", "6", "7", "8", "9", ":", ";", "<", "=", ">", "?",
       "@", "A", "B", "C", "D", "E", "F", "G", "H", "I", "J", "K", "L", "M", "N", "O",
       "P", "Q", "R", "S", "T", "U", "V", "W", "X", "Y", "Z", "[", "<backslash>", "]", "^", "_",
       "<backtick>", "a", "b", "c", "d", "e", "f", "g", "h", "i", "j", "k", "l", "m", "n", "o",
       "p", "q", "r", "s", "t", "u", "v", "w", "x", "y", "z", "{", "|", "}", "~" >>

Range(s) == { s[i] : i \in DOMAIN s }

\* ord(c)
RECURSIVE OrdFrom(_, _)
OrdFrom(c, i) == IF Ascii[i] = c THEN 31 + i ELSE OrdFrom(c, i + 1)

Ord == [ c \in Range(Ascii) |-> OrdFrom(c, 1) ] @@ << >>

\* c.lower() for one character
LowerChar == [ c \in Range(Ascii) |->
                 IF Ord[c] >= 65 /\ Ord[c] <= 90 THEN Ascii[Ord[c] + 32 - 31] ELSE c ] @@ << >>

\* s.lower()
RECURSIVE Lower(_)
Lower(s) == IF s = <<>> THEN <<>> ELSE << LowerChar[s[1]] >> \o Lower(Tail(s))

\* a < b on str: lexicographic by code point, a proper prefix first
RECURSIVE StrLessFrom(_, _, _)
StrLessFrom(a, b, i) ==
    IF i > Len(b) THEN FALSE
    ELSE IF i > Len(a) THEN TRUE
    ELSE IF a[i] # b[i] THEN Ord[a[i]] < Ord[b[i]]
    ELSE StrLessFrom(a, b, i + 1)

StrLess(a, b) == StrLessFrom(a, b, 1)

\* s.rfind(c), 1-based; 0 when c does not occur (-1 in Python)
RECURSIVE RFindFrom(_, _, _)
RFindFrom(s, c, i) ==
    IF i = 0 THEN 0 ELSE IF s[i] = c THEN i ELSE RFindFrom(s, c, i - 1)

RFind(s, c) == RFindFrom(s, c, Len(s))

\* s.find(c, i-1), 1-based; 0 when c does not occur from position i on
RECURSIVE FindFrom(_, _, _)
FindFrom(s, c, i) ==
    IF i > Len(s) THEN 0 ELSE IF s[i] = c THEN i ELSE FindFrom(s, c, i + 1)

\* s[lo-1:hi] in Python: the characters lo..hi
Slice(s, lo, hi) == IF lo > hi THEN <<>> ELSE SubSeq(s, lo, hi)

StartsWith(s, p) == Len(p) <= Len(s) /\ SubSeq(s, 1, Len(p)) = p

EndsWith(s, c) == s # <<>> /\ s[Len(s)] = c

\* s.split(c): the pieces between the occurrences of c, empty ones included
RECURSIVE SplitFrom(_, _, _)
SplitFrom(s, c, start) ==
    LET i == FindFrom(s, c, start)
    IN  IF i = 0 THEN << Slice(s, start, Len(s)) >>
        ELSE << Slice(s, start, i - 1) >> \o SplitFrom(s, c, i + 1)

Split(s, c) == SplitFrom(s, c, 1)

\* c.join(parts)
RECURSIVE JoinWith(_, _)
JoinWith(parts, c) ==
    IF parts = <<>> THEN <<>>
    ELSE IF Len(parts) = 1 THEN parts[1]
    ELSE parts[1] \o << c >> \o JoinWith(Tail(parts), c)

\* s.replace(a, b) for one-character a and b
RECURSIVE Replace(_, _, _)
Replace(s, a, b) ==
    IF s = <<>> THEN <<>>
    ELSE << IF s[1] = a THEN b ELSE s[1] >> \o Replace(Tail(s), a, b)

\* s.rstrip(c)
RECURSIVE RStrip(_, _)
RStrip(s, c) == IF EndsWith(s, c) THEN RStrip(Slice(s, 1, Len(s) - 1), c) ELSE s

(***************************************************************************)
(* list.sort(key=...) and sorted(): a stable sort                          *)
(***************************************************************************)

\* One step of the sort: the keyed item x put after every item whose key is not
\* greater than its own, so that items with equal keys keep their order.
RECURSIVE InsertByKey(_, _)
InsertByKey(sorted, x) ==
    IF sorted = <<>> THEN << x >>
    ELSE IF StrLess(x.key, sorted[1].key) THEN << x >> \o sorted
    ELSE << sorted[1] >> \o InsertByKey(Tail(sorted), x)

\* The keyed items [key, val] in non-decreasing order of key, stably.
RECURSIVE SortKeyed(_)
SortKeyed(items) ==
    IF items = <<>> THEN <<>>
    ELSE InsertByKey(SortKeyed(Slice(items, 1, Len(items) - 1)), items[Len(items)])

RECURSIVE Vals(_)
Vals(items) == IF items = <<>> THEN <<>> ELSE << items[1].val >> \o Vals(Tail(items))

(***************************************************************************)
(* posixpath                                                               *)
(***************************************************************************)

sep == "/"

\* os.getcwd(): the directory the build runs in
Cwd == << "/", "w" >>

isabs(p) == StartsWith(p, << sep >>)

\* posixpath.join(a, b)
join(a, b) ==
    IF isabs(b) THEN b
    ELSE IF a = <<>> \/ EndsWith(a, sep) THEN a \o b
    ELSE a \o << sep >> \o b

\* The loop of posixpath.normpath over the components: "" and "." are dropped,
\* ".." removes the component before it unless there is none to remove.
RECURSIVE NormComps(_, _, _)
NormComps(comps, new_comps, initial_slashes) ==
    IF comps = <<>> THEN new_comps
    ELSE LET comp == comps[1]
             dotdot == << ".", "." >>
         IN  IF comp = <<>> \/ comp = << "." >>
             THEN NormComps(Tail(comps), new_comps, initial_slashes)
             ELSE IF \/ comp # dotdot
                     \/ (initial_slashes = 0 /\ new_comps = <<>>)
                     \/ (new_comps # <<>> /\ new_comps[Len(new_comps)] = dotdot)
             THEN NormComps(Tail(comps), Append(new_comps, comp), initial_slashes)
             ELSE IF new_comps # <<>>
             THEN NormComps(Tail(comps), Slice(new_comps, 1, Len(new_comps) - 1),
                            initial_slashes)
             ELSE NormComps(Tail(comps), new_comps, initial_slashes)

\* posixpath.normpath(path)
normpath(path) ==
    IF path = <<>> THEN << "." >>
    ELSE LET initial_slashes ==
                 IF ~StartsWith(path, << sep >>) THEN 0
                 ELSE IF StartsWith(path, << sep, sep >>)
                         /\ ~StartsWith(path, << sep, sep, sep >>) THEN 2
                 ELSE 1
             joined == JoinWith(NormComps(Split(path, sep), <<>>, initial_slashes), sep)
             out == [ i \in 1..initial_slashes |-> sep ] \o joined
         IN  IF out = <<>> THEN << "." >> ELSE out

\* posixpath.basename(p)
basename(p) == Slice(p, RFind(p, sep) + 1, Len(p))

\* posixpath.dirname(p)
dirname(p) ==
    LET head == Slice(p, 1, RFind(p, sep))
    IN  IF head # <<>> /\ head # [ i \in 1..Len(head) |-> sep ]
        THEN RStrip(head, sep) ELSE head

\* posixpath.splitext(p)[1]: the text from the last dot of the last component,
\* unless only dots precede it there
splitext_ext(p) ==
    LET sepIndex == RFind(p, sep)
        dotIndex == RFind(p, ".")
    IN  IF dotIndex > sepIndex
           /\ \E k \in (sepIndex + 1)..(dotIndex - 1) : p[k] # "."
        THEN Slice(p, dotIndex, Len(p))
        ELSE <<>>

(***************************************************************************)
(* The host: a working directory /w holding                                *)
(*     a_dir/x.txt  a_dir/y.txt  b_dir/Bin/Go.SH  b_dir/bin/Go.SH          *)
(* (a case-sensitive filesystem: Bin and bin are two directories).         *)
(***************************************************************************)

F_ax == << "/", "w", "/", "a", "_", "d", "i", "r", "/", "x", ".", "t", "x", "t" >>
F_ay == << "/", "w", "/", "a", "_", "d", "i", "r", "/", "y", ".", "t", "x", "t" >>
F_bB == << "/", "w", "/", "b", "_", "d", "i", "r", "/", "B", "i", "n", "/", "G", "o", ".", "S", "H" >>
F_bb == << "/", "w", "/", "b", "_", "d", "i", "r", "/", "b", "i", "n", "/", "G", "o", ".", "S", "H" >>

D_a == << "/", "w", "/", "a", "_", "d", "i", "r" >>
D_b == << "/", "w", "/", "b", "_", "d", "i", "r" >>
D_bB == << "/", "w", "/", "b", "_", "d", "i", "r", "/", "B", "i", "n" >>
D_bb == << "/", "w", "/", "b", "_", "d", "i", "r", "/", "b", "i", "n" >>

AllFiles == { F_ax, F_ay, F_bB, F_bb }

\* The directories; the model never removes one.
Dirs == { Cwd, D_a, D_b, D_bB, D_bb }

\* A permission word from its three octal digits: Octal(7, 5, 5) is 0o755.
Octal(o, g, w) == 64 * o + 8 * g + w

\* st_mode & 0o777 values: rw-r--r--, rw-------, rwxr-xr-x, -w-r--r--
Mode644 == Octal(6, 4, 4)
Mode600 == Octal(6, 0, 0)
Mode755 == Octal(7, 5, 5)
Mode244 == Octal(2, 4, 4)

Modes == { Mode644, Mode600, Mode755, Mode244 }

\* st_mtime values: days after 2024-01-01 00:00 local time
Mtimes == { 0, 1 }

\* The tree as checked out: every file rw-r--r--.
Tree0 ==
    (F_ax :> [data |-> << "h", "i" >>, mtime |-> 0, mode |-> Mode644]) @@
    (F_ay :> [data |-> << "b", "y", "e" >>, mtime |-> 0, mode |-> Mode644]) @@
    (F_bB :> [data |-> << "#", "1" >>, mtime |-> 0, mode |-> Mode644]) @@
    (F_bb :> [data |-> << "#", "2" >>, mtime |-> 0, mode |-> Mode644])

\* The trees a first build may find: as checked out, with x.txt made executable,
\* with y.txt unreadable.
Hosts ==
    { Tree0,
      [Tree0 EXCEPT ![F_ax].mode = Mode755],
      [Tree0 EXCEPT ![F_ay].mode = Mode244] }

P_a == << ".", "/", "a", "_", "d", "i", "r" >>
P_a_slash == << ".", "/", "a", "_", "d", "i", "r", "/" >>
P_b == << ".", "/", "b", "_", "d", "i", "r" >>
P_bB == << "b", "_", "d", "i", "r", "/", "B", "i", "n", "/", "G", "o", ".", "S", "H" >>
P_bb == << "b", "_", "d", "i", "r", "/", "b", "i", "n", "/", "G", "o", ".", "S", "H" >>
P_missing == << ".", "/", "n", "o", "p", "e", ".", "y", "m", "l" >>

\* The paths a caller passes: directories (one also with a trailing separator),
\* files, and a path that does not exist.
Candidates == { P_a, P_a_slash, P_b, P_bB, P_bb, P_missing }

\* posixpath.abspath(path), computed
abspath_of(path) == IF isabs(path) THEN normpath(path) ELSE normpath(join(Cwd, path))

\* The paths the build can form: the candidates, their directory names, and a
\* candidate joined with the names below a directory.
KnownPaths ==
    { q : q \in
        Candidates \cup AllFiles \cup Dirs \cup { <<>> }
        \cup { dirname(p) : p \in Candidates }
        \cup UNION { { join(p, Slice(g, Len(d) + 2, Len(g))) :
                        g \in { h \in AllFiles \cup Dirs : StartsWith(h, d \o << sep >>) } } :
                    p \in Candidates, d \in Dirs } }

\* abspath_of tabulated once over KnownPaths.
AbsTable == [ p \in KnownPaths |-> abspath_of(p) ] @@ << >>

\* posixpath.abspath(path)
abspath(path) == IF path \in KnownPaths THEN AbsTable[path] ELSE abspath_of(path)

\* The non-empty components of an absolute path: [x for x in p.split(sep) if x]
PathList(p) == SelectSeq(Split(p, sep), LAMBDA x : x # <<>>)

\* len(commonprefix([a, b])) for two lists of components
RECURSIVE CommonLen(_, _)
CommonLen(a, b) ==
    IF a = <<>> \/ b = <<>> \/ a[1] # b[1] THEN 0
    ELSE 1 + CommonLen(Tail(a), Tail(b))

\* posixpath.relpath(path, start); an empty start is the current directory
relpath(path, start) ==
    LET start_list == PathList(abspath(start))
        path_list == PathList(abspath(path))
        i == CommonLen(start_list, path_list)
        rel_list == [ k \in 1..(Len(start_list) - i) |-> << ".", "." >> ]
                    \o Slice(path_list, i + 1, Len(path_list))
    IN  IF rel_list = <<>> THEN << "." >> ELSE JoinWith(rel_list, sep)

\* The names a directory may hold.
Children(d) ==
    { basename(f) : f \in { g \in AllFiles \cup Dirs : g # d /\ dirname(g) = d } }

\* Every order in which a set of names can be enumerated.
Orders(S) ==
    { o \in [1..Cardinality(S) -> S] : \A i, j \in DOMAIN o : i # j => o[i] # o[j] }

\* A directory the build has not enumerated yet has no order.
NotListed == << >>

\* The directories below Cwd with, for each, one order of its own names.
Listings ==
    { M : M \in
        { L \in [ Dirs \ { Cwd } -> UNION { Orders(Children(d)) : d \in Dirs \ { Cwd } } ] :
            \A d \in Dirs \ { Cwd } : L[d] \in Orders(Children(d)) } }

\* The process runs as the owner of the files, without superuser rights.
OwnerR(mode) == (mode \div 256) % 2 = 1
OwnerX(mode) == (mode \div 64) % 2 = 1

\* The execute bits of a mode, and the rest of it (the read and write bits).
XBits(mode) == (mode % 2) + 8 * ((mode \div 8) % 2) + 64 * ((mode \div 64) % 2)
RWBits(mode) == mode - XBits(mode)

\* os.path.isfile, os.path.isdir, os.path.exists
isfile(fs, path) == abspath(path) \in DOMAIN fs /\ ~EndsWith(path, sep)
isdir(path) == abspath(path) \in Dirs
exists(fs, path) == isfile(fs, path) \/ isdir(path)

\* open(file_path, "rb") succeeds
Readable(fs, file_path) ==
    isfile(fs, file_path) /\ OwnerR(fs[abspath(file_path)].mode)

\* os.access(file_path, os.X_OK)
access_X_OK(fs, file_path) ==
    \/ isdir(file_path)
    \/ isfile(fs, file_path) /\ OwnerX(fs[abspath(file_path)].mode)

(***************************************************************************)
(* First pass: from the paths to all_files_to_add                          *)
(***************************************************************************)

\* Each string keyed by itself.
RECURSIVE KeyedBySelf(_)
KeyedBySelf(list) ==
    IF list = <<>> THEN <<>>
    ELSE << [key |-> list[1], val |-> list[1]] >> \o KeyedBySelf(Tail(list))

\* Each string keyed by str.lower.
RECURSIVE KeyedByLower(_)
KeyedByLower(list) ==
    IF list = <<>> THEN <<>>
    ELSE << [key |-> Lower(list[1]), val |-> list[1]] >> \o KeyedByLower(Tail(list))

\* Each pair x keyed by x[1].lower() in Python, the lower-cased archive name.
RECURSIVE KeyedByLowerArcname(_)
KeyedByLowerArcname(list) ==
    IF list = <<>> THEN <<>>
    ELSE << [key |-> Lower(list[1][2]), val |-> list[1]] >>
         \o KeyedByLowerArcname(Tail(list))

\* The paths left in the order the caller gave them.
SortedPaths_Unsorted(ps) == ps

\* sorted(paths)
SortedPaths(ps) == Vals(SortKeyed(KeyedBySelf(ps)))

\* dirs.sort(key=str.lower), files.sort(key=str.lower)
SortNames(names) == Vals(SortKeyed(KeyedByLower(names)))

\* os.walk(top): one <<root, dirs, files>> per directory, top-down, each list in
\* the order the host enumerates it and then sorted in place by the loop body,
\* which also decides the order of descent.
RECURSIVE walk(_, _, _)
RECURSIVE walk_dirs(_, _, _, _)
walk(fs, L, top) ==
    LET names == SelectSeq(L[abspath(top)], LAMBDA n : exists(fs, join(top, n)))
        dirs == SortNames(SelectSeq(names, LAMBDA n : isdir(join(top, n))))
        nondirs == SortNames(SelectSeq(names, LAMBDA n : ~isdir(join(top, n))))
    IN  << [root |-> top, dirs |-> dirs, files |-> nondirs] >>
        \o walk_dirs(fs, L, top, dirs)

\* The walks of the subdirectories `dirs` of `top`, one after the other.
walk_dirs(fs, L, top, dirs) ==
    IF dirs = <<>> THEN <<>>
    ELSE walk(fs, L, join(top, dirs[1])) \o walk_dirs(fs, L, top, Tail(dirs))

\* The archive name of a path given with its structure: normalized, separators
\* made "/"; the drive prefix is removed on Windows only.
StructuredName(path) == Replace(normpath(path), sep, "/")

\* The archive name of an input that is a single file.
FileArcname(path, preserve) ==
    IF preserve THEN StructuredName(path) ELSE basename(path)

\* The archive name of a file found under an input directory.
DirArcname(path, file_path, preserve) ==
    IF preserve THEN StructuredName(file_path)
    ELSE Replace(normpath(relpath(file_path, dirname(path))), sep, "/")

\* The pairs the loop over the files of one triple appends.
RECURSIVE TripleEntries(_, _, _, _)
TripleEntries(path, root, names, preserve) ==
    IF names = <<>> THEN <<>>
    ELSE LET file_path == join(root, names[1])
         IN  << << file_path, DirArcname(path, file_path, preserve) >> >>
             \o TripleEntries(path, root, Tail(names), preserve)

\* The pairs the loop over the triples of a walk appends.
RECURSIVE WalkEntries(_, _, _)
WalkEntries(path, triples, preserve) ==
    IF triples = <<>> THEN <<>>
    ELSE TripleEntries(path, triples[1].root, triples[1].files, preserve)
         \o WalkEntries(path, Tail(triples), preserve)

\* The pairs one iteration of the first pass appends for `path`.
PathEntries(fs, L, path, preserve) ==
    IF ~exists(fs, path) THEN << >>
    ELSE IF isfile(fs, path) THEN << << path, FileArcname(path, preserve) >> >>
    ELSE IF isdir(path)
    THEN WalkEntries(path, walk(fs, L, path), preserve)
    ELSE << >>

\* A missing path skipped without a word.
PathWarning_Silent(fs, path) == << >>

\* What one iteration of the first pass prints for `path`.
PathWarning(fs, path) ==
    IF exists(fs, path) THEN << >> ELSE << [kind |-> "warning", path |-> path] >>

\* The collected pairs left in the order of collection.
SortAll_Unsorted(list) == list

\* all_files_to_add.sort(key=lambda x: x[1].lower())
SortAll(list) == Vals(SortKeyed(KeyedByLowerArcname(list)))

(***************************************************************************)
(* Second pass: the ZipInfo of one entry                                   *)
(***************************************************************************)

ZIP_DEFLATED == 8
compresslevel == 6

executable_extensions ==
    { << ".", "s", "h" >>, << ".", "p", "y" >>, << ".", "p", "l" >>, << ".", "r", "b" >>,
      << ".", "j", "s" >>, << ".", "e", "x", "e" >>, << ".", "b", "a", "t" >>, << ".", "c", "m", "d" >> }

\* The extension compared as written, without lower().
file_ext_CaseSensitive(file_path) == splitext_ext(file_path)

\* file_ext = os.path.splitext(file_path)[1].lower()
file_ext(file_path) == Lower(splitext_ext(file_path))

is_executable(fs, file_path) ==
    file_ext(file_path) \in executable_extensions \/ access_X_OK(fs, file_path)

\* time.localtime(st_mtime)[:6]
localtime(mtime) == << 2024, 1, 1 + mtime, 0, 0, 0 >>

\* The modification time of the file written whatever the mode.
date_time_Mtime(det, st) == localtime(st.mtime)

\* zinfo.date_time
date_time(det, st) ==
    IF det THEN << 1980, 1, 1, 0, 0, 0 >> ELSE localtime(st.mtime)

\* x & 0o777, for the permission words the model holds (all below 0o1000)
And777(x) == x % 512

\* zinfo.external_attr
external_attr(det, fs, file_path) ==
    IF det
    THEN IF is_executable(fs, file_path)
         THEN And777(Octal(7, 5, 5)) * 65536
         ELSE And777(Octal(6, 4, 4)) * 65536
    ELSE And777(fs[abspath(file_path)].mode) * 65536

\* The entry writestr appends for the pair <<file_path, arcname>>.
ZipEntry(det, fs, file_path, arcname) ==
    LET file_data == fs[abspath(file_path)].data
    IN  [ filename |-> arcname,
          date_time |-> date_time(det, fs[abspath(file_path)]),
          external_attr |-> external_attr(det, fs, file_path),
          compress_type |-> ZIP_DEFLATED,
          compresslevel |-> compresslevel,
          file_size |-> Len(file_data),
          data |-> file_data ]

(***************************************************************************)
(* The call create_zip_with_multiple_files(zip_filename, paths,            *)
(* preserve_structure, deterministic), as create_lambda_zip makes it       *)
(***************************************************************************)

\* Longest list of input paths the model passes.
MaxPaths == 2

zip_path == "lambda_deployment.zip"

PathLists == UNION { [1..n -> Candidates] : n \in 0..MaxPaths }

Unlisted == [ d \in Dirs \ { Cwd } |-> NotListed ]

\* No file at zip_filename.
NoDest == [exists |-> FALSE, closed |-> FALSE, entries |-> << >>]

\* No previous build.
NoPrev == [outcome |-> "none", entries |-> << >>, listing |-> Unlisted]

Init ==
    /\ files \in Hosts
    /\ listing = Unlisted
    /\ paths \in PathLists
    /\ preserve_structure \in BOOLEAN
    /\ deterministic \in BOOLEAN
    /\ pc = "idle"
    /\ sorted_paths = << >>
    /\ idx = 1
    /\ all_files_to_add = << >>
    /\ widx = 1
    /\ dest = NoDest
    /\ stdout = << >>
    /\ ret = << >>
    /\ prev = NoPrev
    /\ changes = {}

\* The directories the walk of `path` enumerates.
WalkedDirs(fs, path) ==
    IF exists(fs, path) /\ ~isfile(fs, path) /\ isdir(path)
    THEN { d \in Dirs \ { Cwd } :
             d = abspath(path) \/ StartsWith(d, abspath(path) \o << sep >>) }
    ELSE {}

\* The call starts: the paths are sorted and ZipFile(zip_filename, "w") creates
\* or truncates the destination.
Begin ==
    /\ pc = "idle"
    /\ sorted_paths' = SortedPaths(paths)
    /\ dest' = [exists |-> TRUE, closed |-> FALSE, entries |-> << >>]
    /\ pc' = "resolve"
    /\ idx' = 1
    /\ all_files_to_add' = << >>
    /\ widx' = 1
    /\ stdout' = << >>
    /\ ret' = << >>
    /\ listing' = Unlisted
    /\ UNCHANGED <<files, paths, preserve_structure, deterministic, prev, changes>>

\* One iteration of the first pass. The host enumerates each directory of the walk
\* in an order of its choosing, the same one every time within a build.
ResolvePath ==
    /\ pc = "resolve"
    /\ idx <= Len(sorted_paths)
    /\ LET path == sorted_paths[idx]
           walked == WalkedDirs(files, path)
       IN  \E L \in Listings :
             /\ \A d \in walked : listing[d] = NotListed \/ listing[d] = L[d]
             /\ listing' = [ d \in Dirs \ { Cwd } |->
                               IF d \in walked THEN L[d] ELSE listing[d] ]
             /\ all_files_to_add' =
                    all_files_to_add \o PathEntries(files, L, path, preserve_structure)
             /\ stdout' = stdout \o PathWarning(files, path)
    /\ idx' = idx + 1
    /\ UNCHANGED <<files, paths, preserve_structure, deterministic, pc, sorted_paths,
                   widx, dest, ret, prev, changes>>

\* The first pass is over: the global sort.
SortFiles ==
    /\ pc = "resolve"
    /\ idx > Len(sorted_paths)
    /\ all_files_to_add' = SortAll(all_files_to_add)
    /\ pc' = "write"
    /\ UNCHANGED <<files, listing, paths, preserve_structure, deterministic,
                   sorted_paths, idx, widx, dest, stdout, ret, prev, changes>>

\* One iteration of the second pass: the file is read and its entry written.
WriteEntry ==
    /\ pc = "write"
    /\ widx <= Len(all_files_to_add)
    /\ LET file_path == all_files_to_add[widx][1]
           arcname == all_files_to_add[widx][2]
       IN  /\ Readable(files, file_path)
           /\ dest' = [dest EXCEPT !.entries =
                         Append(@, ZipEntry(deterministic, files, file_path, arcname))]
           /\ stdout' = Append(stdout, [kind |-> "added", path |-> file_path,
                                        arcname |-> arcname])
    /\ widx' = widx + 1
    /\ UNCHANGED <<files, listing, paths, preserve_structure, deterministic, pc,
                   sorted_paths, idx, all_files_to_add, ret, prev, changes>>

\* open(file_path, "rb") raises: nothing catches it, the with statement closes
\* the ZipFile, which writes the directory of the entries written so far, and the
\* exception leaves the call.
ReadFails ==
    /\ pc = "write"
    /\ widx <= Len(all_files_to_add)
    /\ ~Readable(files, all_files_to_add[widx][1])
    /\ dest' = [dest EXCEPT !.closed = TRUE]
    /\ pc' = "aborted"
    /\ UNCHANGED <<files, listing, paths, preserve_structure, deterministic,
                   sorted_paths, idx, all_files_to_add, widx, stdout, ret, prev, changes>>

\* writestr raises (the disk is full): the exception leaves the call and the
\* destination keeps what had been written.
WriteFails ==
    /\ pc = "write"
    /\ widx <= Len(all_files_to_add)
    /\ Readable(files, all_files_to_add[widx][1])
    /\ pc' = "aborted"
    /\ UNCHANGED <<files, listing, paths, preserve_structure, deterministic,
                   sorted_paths, idx, all_files_to_add, widx, dest, stdout, ret, prev,
                   changes>>

\* The second pass is over: the ZipFile is closed, the call returns None and
\* create_lambda_zip returns zip_path.
Finish ==
    /\ pc = "write"
    /\ widx > Len(all_files_to_add)
    /\ dest' = [dest EXCEPT !.closed = TRUE]
    /\ pc' = "done"
    /\ ret' = [ k \in { "zip_path" } |-> zip_path ]
    /\ UNCHANGED <<files, listing, paths, preserve_structure, deterministic,
                   sorted_paths, idx, all_files_to_add, widx, stdout, prev, changes>>

(***************************************************************************)
(* The host and the caller around the build                                *)
(***************************************************************************)

\* Another process removes a file while the build runs.
Unlink ==
    /\ pc \in { "resolve", "write" }
    /\ "unlink" \notin changes
    /\ \E f \in DOMAIN files :
         files' = [ g \in DOMAIN files \ { f } |-> files[g] ]
    /\ changes' = changes \cup { "unlink" }
    /\ UNCHANGED <<listing, paths, preserve_structure, deterministic, pc, sorted_paths,
                   idx, all_files_to_add, widx, dest, stdout, ret, prev>>

\* The caller keeps the outcome of the build, to compare the next one with it.
Return ==
    /\ pc \in { "done", "aborted" }
    /\ prev.outcome = "none"
    /\ prev' = [outcome |-> pc, entries |-> dest.entries, listing |-> listing]
    /\ pc' = "idle"
    /\ changes' = {}
    /\ UNCHANGED <<files, listing, paths, preserve_structure, deterministic,
                   sorted_paths, idx, all_files_to_add, widx, dest, stdout, ret>>

\* Every order of the elements of a list.
ListPermutations(list) ==
    { [ i \in 1..Len(list) |-> list[o[i]] ] : o \in Orders(1..Len(list)) }

\* The caller passes the same paths in another order.
Permute ==
    /\ pc = "idle"
    /\ prev.outcome # "none"
    /\ changes = {}
    /\ \E q \in ListPermutations(paths) \ { paths } : paths' = q
    /\ changes' = { "order" }
    /\ UNCHANGED <<files, listing, preserve_structure, deterministic, pc, sorted_paths,
                   idx, all_files_to_add, widx, dest, stdout, ret, prev>>

\* Whether file f is the input path p or lies below it.
Under(f, p) == f = abspath(p) \/ StartsWith(f, abspath(p) \o << sep >>)

\* Between two builds one of the files the paths name is touched, or its read and
\* write bits are changed, or both; its execute bits stay.
Retouch ==
    /\ pc = "idle"
    /\ prev.outcome # "none"
    /\ changes = {}
    /\ \E f \in DOMAIN files, m \in Modes, t \in Mtimes :
         /\ \E k \in DOMAIN paths : Under(f, paths[k])
         /\ XBits(m) = XBits(files[f].mode)
         /\ << m, t >> # << files[f].mode, files[f].mtime >>
         /\ files' = [files EXCEPT ![f].mode = m, ![f].mtime = t]
         /\ changes' = (IF t # files[f].mtime THEN { "mtime" } ELSE {})
                       \cup (IF m # files[f].mode THEN { "mode_rw" } ELSE {})
    /\ UNCHANGED <<listing, paths, preserve_structure, deterministic, pc, sorted_paths,
                   idx, all_files_to_add, widx, dest, stdout, ret, prev>>

\* One build, on a host where files may disappear and the disk may fill.
Next ==
    \/ Begin \/ ResolvePath \/ SortFiles \/ WriteEntry \/ ReadFails \/ Finish
    \/ WriteFails \/ Unlink

Spec == Init /\ [][Next]_vars

\* Two builds of the same paths, the second with the paths in any order.
NextOrder ==
    \/ Begin \/ ResolvePath \/ SortFiles \/ WriteEntry \/ ReadFails \/ Finish
    \/ Return \/ Permute

SpecOrder == Init /\ [][NextOrder]_vars

\* Two builds of the same paths over trees that differ in modification times and
\* read and write bits.
NextMeta ==
    \/ Begin \/ ResolvePath \/ SortFiles \/ WriteEntry \/ ReadFails \/ Finish
    \/ Return \/ Retouch

\* The first of the two builds finds the tree as checked out.
InitMeta == Init /\ files = Tree0

SpecMeta == InitMeta /\ [][NextMeta]_vars

(***************************************************************************)
(* Properties                                                              *)
(***************************************************************************)

\* The archive names written so far, in order.
RECURSIVE Filenames(_)
Filenames(entries) ==
    IF entries = <<>> THEN <<>> ELSE << entries[1].filename >> \o Filenames(Tail(entries))

\* The build is past its first pass.
Resolved == pc \in { "write", "done", "aborted" }

\* The second of two builds has ended.
SecondEnded == pc \in { "done", "aborted" } /\ prev.outcome # "none"

\* The paths the build warned about, in the order of the warnings.
RECURSIVE WarnedPaths(_)
WarnedPaths(out) ==
    IF out = <<>> THEN <<>>
    ELSE (IF out[1].kind = "warning" THEN << out[1].path >> ELSE <<>>)
         \o WarnedPaths(Tail(out))

\* The <<file_path, arcname>> pairs the build reported as added, in order.
RECURSIVE AddedPairs(_)
AddedPairs(out) ==
    IF out = <<>> THEN <<>>
    ELSE (IF out[1].kind = "added" THEN << << out[1].path, out[1].arcname >> >> ELSE <<>>)
         \o AddedPairs(Tail(out))

Perm755 == Octal(7, 5, 5) * 65536
Perm644 == Octal(6, 4, 4) * 65536

\* C1: in deterministic mode, two completed builds of the same paths over the
\* same tree write the same entries, whatever the order in which the host
\* enumerates each directory in either build.
C1_EnumerationOrderIrrelevant ==
    (deterministic /\ pc = "done" /\ prev.outcome = "done" /\ changes = {})
        => dest.entries = prev.entries

\* C2: two builds of the same list of paths given in two orders, over the same
\* tree enumerated the same way, end the same way and write the same entries.
C2_OrderInvariance ==
    (SecondEnded /\ changes \subseteq { "order" } /\ listing = prev.listing)
        => (pc = prev.outcome /\ dest.entries = prev.entries)

\* C2 witness: a second build completed after the caller gave two or more paths
\* in an order that is not the sorted one, and wrote entries.
C2_Witness ==
    /\ pc = "done" /\ prev.outcome = "done"
    /\ changes = { "order" }
    /\ listing = prev.listing
    /\ paths # sorted_paths
    /\ Len(dest.entries) >= 2

\* C3: a completed build whose pairs come from distinct files holds no archive
\* name twice (two inputs resolving to one name would have been rejected).
C3_NoDuplicateNames ==
    (/\ pc = "done"
     /\ \A i, j \in DOMAIN all_files_to_add :
          i # j => abspath(all_files_to_add[i][1]) # abspath(all_files_to_add[j][1]))
        => \A i, j \in DOMAIN dest.entries :
             i # j => dest.entries[i].filename # dest.entries[j].filename

\* C4: after a build has aborted in its second pass, no file is left at the
\* destination.
C4_NoPartialOutput == pc = "aborted" => ~dest.exists

\* C5 as stated: a build that found an input path missing does not complete as
\* a successful build.
C5_MissingInputFails == pc = "done" => WarnedPaths(stdout) = << >>

\* C5 as amended: once the first pass is over on a host where no file
\* disappeared, the warnings name exactly the missing input paths, in sorted
\* order, and every file at or below an input path has been collected; and a
\* build that completes has written every collected pair.
C5_MissingInputsWarnedAndSkipped ==
    /\ (Resolved /\ "unlink" \notin changes) =>
          /\ WarnedPaths(stdout)
               = SelectSeq(sorted_paths, LAMBDA p : ~exists(files, p))
          /\ \A k \in DOMAIN sorted_paths : \A f \in DOMAIN files :
               (Under(f, sorted_paths[k]) /\ ~EndsWith(f, sep)
                   /\ (isdir(sorted_paths[k]) \/ isfile(files, sorted_paths[k])))
                 => \E i \in DOMAIN all_files_to_add :
                      abspath(all_files_to_add[i][1]) = f
    /\ pc = "done" => Len(dest.entries) = Len(all_files_to_add)

\* C5 witness: a build completed with an entry written for its second sorted
\* path although the first was missing and warned about.
C5_Witness ==
    /\ pc = "done"
    /\ "unlink" \notin changes
    /\ Len(sorted_paths) >= 2
    /\ ~exists(files, sorted_paths[1])
    /\ WarnedPaths(stdout) = << sorted_paths[1] >>
    /\ exists(files, sorted_paths[2])
    /\ Len(dest.entries) >= 1

C7_ReturnsCompositeHash == pc = "done" => "composite_hash" \in DOMAIN ret

\* C8: a flattened build of the directory a_dir alone, given with or without a
\* trailing separator, writes exactly the entries x.txt and y.txt.
C8_FlattenedDirectoryNames ==
    (/\ pc = "done"
     /\ ~preserve_structure
     /\ paths \in { << P_a >>, << P_a_slash >> }
     /\ "unlink" \notin changes)
        => Filenames(dest.entries) = << << "x", ".", "t", "x", "t" >>, << "y", ".", "t", "x", "t" >> >>

\* C9: in deterministic mode every entry written carries 0755 if its file has an
\* extension of the allow-list (here the two Go.SH) or is executable on the
\* host, and 0644 otherwise.
C9_PermissionDerivation ==
    deterministic =>
        \A i \in DOMAIN dest.entries :
            LET f == abspath(all_files_to_add[i][1])
            IN  f \in DOMAIN files =>
                  dest.entries[i].external_attr =
                      IF f \in { F_bB, F_bb } \/ OwnerX(files[f].mode)
                      THEN Perm755 ELSE Perm644

\* C9 witness: a completed deterministic build holding an entry that is 0755 by
\* its extension alone, one that is 0755 by its execute bit alone, and one that
\* is 0644.
C9_Witness ==
    /\ deterministic /\ pc = "done" /\ "unlink" \notin changes
    /\ \E i, j, k \in DOMAIN dest.entries :
         /\ abspath(all_files_to_add[i][1]) = F_bB
         /\ ~OwnerX(files[F_bB].mode)
         /\ dest.entries[i].external_attr = Perm755
         /\ abspath(all_files_to_add[j][1]) = F_ax
         /\ OwnerX(files[F_ax].mode)
         /\ dest.entries[j].external_attr = Perm755
         /\ abspath(all_files_to_add[k][1]) = F_ay
         /\ dest.entries[k].external_attr = Perm644

\* C10: entries are written only after every path is resolved and the list is
\* sorted; they are the collected pairs, in order, one entry per pair, in
\* non-decreasing order of lower-cased archive name; a completed build has
\* written every pair once.
C10_CanonicalWriteOrder ==
    /\ dest.entries # << >> => (Resolved /\ idx > Len(sorted_paths))
    /\ Resolved =>
          /\ \A i \in DOMAIN all_files_to_add : i > 1 =>
               ~StrLess(Lower(all_files_to_add[i][2]), Lower(all_files_to_add[i - 1][2]))
          /\ Len(dest.entries) = widx - 1
          /\ AddedPairs(stdout) = Slice(all_files_to_add, 1, widx - 1)
          /\ Filenames(dest.entries)
               = [ i \in 1..(widx - 1) |-> all_files_to_add[i][2] ]
    /\ pc = "done" => widx - 1 = Len(all_files_to_add)

\* C10 witness: a completed build whose sort moved the pair collected last, from
\* the path sorted last, to the front.
C10_Witness ==
    /\ pc = "done"
    /\ sorted_paths = << P_a_slash, P_bB >>
    /\ Filenames(dest.entries) = << << "G", "o", ".", "S", "H" >>, << "x", ".", "t", "x", "t" >>, << "y", ".", "t", "x", "t" >> >>

====
